---- MODULE Spec2Model ----
(***************************************************************************)
(* The Referee: the generic multi-criteria decision engine                 *)
(* (referee-engine.js, class RefereeEngine) and the selection step of the  *)
(* three domain comparators.                                               *)
(*                                                                         *)
(* Numbers.  Raw scores are whole points on the 0..10 scale.  Weights are  *)
(* hundredths (0.3 is 30), so weighted scores and totalScore are           *)
(* hundredths of a point (raw * weight).  Confidence values are in units   *)
(* of 1/3000, so that 0.5 + gap/10, 0.6 + gap/5 and 0.6 + gap/3 are all    *)
(* integers (0.5 is 1500, 0.6 is 1800, 1.0 is 3000).  In the tech-stack    *)
(* comparator weights and totals are thousandths (1 / 8 is 125).           *)
(*                                                                         *)
(* A JavaScript value that may be undefined / null is a sequence of length *)
(* at most one: << >> is undefined (or null), << v >> is the value v.      *)
(***************************************************************************)
EXTENDS Integers, Sequences, FiniteSets, TLC

VARIABLES
  call,         \* the Referee method being executed
  options,      \* compare(options, ...): the caller's option objects
  criteria,     \* compare(..., criteria, ...): the criterion names
  constraints,  \* compare(..., constraints): maxCost, requiredFeatures, weights
  task,         \* per option: the async callback of evaluateOptions
  values,       \* Promise.all's result array, one slot per option
  result,       \* the settled outcome of compare
  scorer,       \* what stands behind Math.random() in evaluateCriterion
  request,      \* the HTTP request the server is handling, if any
  response      \* the HTTP response sent for it, if any

vars == <<call, options, criteria, constraints, task, values, result,
          scorer, request, response>>

----------------------------------------------------------------------------
(* Bounds of the model *)

MaxOptions == 3
MaxCriteria == 2
MaxCost == 2
\* the engine issues Len(options) * Len(criteria) scorer calls: at most
\* MaxCalls of them in a comparison under constraints, at most MaxPlainCalls
\* in a comparison called without a constraints argument
MaxCalls == 4
MaxPlainCalls == 6

\* identifying names of the option objects, by position
OptionNames == <<"A", "B", "C", "D", "E">>
\* criterion names a caller passes
CriteriaNames == {"performance", "cost"}
\* values Math.random() * 10 is drawn from
RawValues == {0, 1, 9}
\* weights a caller passes for "performance" in constraints.weights
CallerWeights == {100}

Undefined == << >>
Some(v) == << v >>

----------------------------------------------------------------------------
(* Sequence helpers standing for Array.prototype methods *)

\* Array.prototype.slice(from, to) with 0-based from, exclusive to
Slice(s, from, to) ==
  LET hi == IF to < Len(s) THEN to ELSE Len(s)
  IN  IF from >= hi THEN << >> ELSE SubSeq(s, from + 1, hi)

\* Number.prototype.toFixed(2) of a value held in hundredths: the integer
\* part and the two decimals
toFixed2(h) ==
  [neg |-> h < 0,
   int |-> (IF h < 0 THEN -h ELSE h) \div 100,
   frac |-> (IF h < 0 THEN -h ELSE h) % 100]

----------------------------------------------------------------------------
(* RefereeEngine *)

defaultWeights ==
  [performance |-> 30, cost |-> 25, ease_of_use |-> 20,
   scalability |-> 15, community_support |-> 10]

\* the explanation texts, named by their tier
generateCriterionExplanation(option, criterion, score) ==
  IF criterion \in {"performance", "cost", "ease_of_use", "scalability"}
  THEN IF score > 7 THEN <<criterion, "high">>
       ELSE IF score > 5 THEN <<criterion, "medium">>
       ELSE <<criterion, "low">>
  ELSE <<"Score", score>>

\* weightFor with an equal share 1 / criteria.length for a criterion the
\* caller gives no weight for
weightFor_EqualShare(cons, criterion) ==
  LET given == IF cons.weights # Undefined /\ criterion \in DOMAIN cons.weights[1]
               THEN cons.weights[1][criterion] ELSE 0
  IN  IF given # 0 THEN given ELSE 100 \div Len(criteria)

\* constraints.weights?.[criterion] || this.defaultWeights[criterion] || 0.1
weightFor(cons, criterion) ==
  LET given == IF cons.weights # Undefined /\ criterion \in DOMAIN cons.weights[1]
               THEN cons.weights[1][criterion] ELSE 0
      dflt  == IF criterion \in DOMAIN defaultWeights
               THEN defaultWeights[criterion] ELSE 0
  IN  IF given # 0 THEN given
      ELSE IF dflt # 0 THEN dflt
      ELSE 10

\* baseScore is the value of Math.random() * 10
evaluateCriterion(option, criterion, cons, baseScore) ==
  [raw |-> baseScore,
   weighted |-> baseScore * weightFor(cons, criterion),
   explanation |-> generateCriterionExplanation(option, criterion, baseScore)]

\* the position of a key among the keys of a scores object, or 0
keyIndex(scores, criterion) ==
  LET hits == {i \in 1..Len(scores) : scores[i].criterion = criterion}
  IN  IF hits = {} THEN 0 ELSE CHOOSE i \in hits : \A j \in hits : i <= j

\* scores[criterion] = score on a plain object: an existing key keeps its
\* place and takes the new value, a new key is appended
PutScore(scores, criterion, score) ==
  LET at == keyIndex(scores, criterion)
      entry == [criterion |-> criterion, raw |-> score.raw,
                weighted |-> score.weighted, explanation |-> score.explanation]
  IN  IF at = 0 THEN Append(scores, entry)
      ELSE [scores EXCEPT ![at] = entry]

\* checkConstraints failing an option when no requiredFeatures list is given
checkConstraints_AbsentKeyFails(option, cons) ==
  IF /\ cons.maxCost # Undefined
     /\ cons.maxCost[1] # 0
     /\ option.cost # Undefined
     /\ option.cost[1] > cons.maxCost[1]
  THEN FALSE
  ELSE IF cons.requiredFeatures # Undefined
       THEN \A k \in 1..Len(cons.requiredFeatures[1]) :
              /\ option.features # Undefined
              /\ cons.requiredFeatures[1][k] \in option.features[1]
       ELSE FALSE

checkConstraints(option, cons) ==
  IF /\ cons.maxCost # Undefined
     /\ cons.maxCost[1] # 0
     /\ option.cost # Undefined
     /\ option.cost[1] > cons.maxCost[1]
  THEN FALSE
  ELSE IF cons.requiredFeatures # Undefined
       THEN \A k \in 1..Len(cons.requiredFeatures[1]) :
              /\ option.features # Undefined
              /\ cons.requiredFeatures[1][k] \in option.features[1]
       ELSE TRUE

\* the object returned by the callback of evaluateOptions
EvaluatedOption(option, scores, totalScore, cons) ==
  [name |-> option.name, cost |-> option.cost, features |-> option.features,
   scores |-> scores, totalScore |-> totalScore,
   meetsConstraints |-> checkConstraints(option, cons)]

\* pickBetter with >= for >: a later option wins a tie
pickBetter_LastWins(best, current) ==
  IF current.totalScore >= best.totalScore THEN current ELSE best

\* the reducer of generateRecommendation and calculateConfidence:
\* (best, current) => current.totalScore > best.totalScore ? current : best
pickBetter(best, current) ==
  IF current.totalScore > best.totalScore THEN current ELSE best

\* Array.prototype.reduce(pickBetter) without an initial value, on a
\* non-empty array
RECURSIVE reduceBest(_, _, _)
reduceBest(s, best, i) ==
  IF i > Len(s) THEN best ELSE reduceBest(s, pickBetter(best, s[i]), i + 1)

topOf(s) == reduceBest(s, s[1], 2)

\* confidenceOf with the comparators' base of 0.6
confidenceOf_Base06(scoreDiff) ==
  LET c == 1800 + 3 * scoreDiff IN IF c < 3000 THEN c ELSE 3000

\* Math.min(0.5 + (scoreDiff / 10), 1.0), in units of 1/3000
confidenceOf(scoreDiff) ==
  LET c == 1500 + 3 * scoreDiff IN IF c < 3000 THEN c ELSE 3000

calculateConfidence(topOption, allOptions) ==
  IF Len(allOptions) < 2 THEN 3000
  ELSE LET secondBest == topOf(SelectSeq(allOptions, LAMBDA opt : opt # topOption))
       IN  confidenceOf(topOption.totalScore - secondBest.totalScore)

\* the criteria of the top option with raw > 7, and its total score
generateRecommendationReason(topOption, allOptions) ==
  [strengths |->
     LET strong == SelectSeq(topOption.scores, LAMBDA e : e.raw > 7)
     IN  [k \in 1..Len(strong) |-> strong[k].criterion],
   score |-> toFixed2(topOption.totalScore)]

\* validOptionsOf without the filter
validOptionsOf_Unfiltered(evaluatedOptions) == evaluatedOptions

\* the options the recommendation is chosen among
validOptionsOf(evaluatedOptions) ==
  SelectSeq(evaluatedOptions, LAMBDA opt : opt.meetsConstraints)

\* generateRecommendation taking the alternatives from the valid options
generateRecommendation_ValidAlternatives(evaluatedOptions, cons) ==
  LET validOptions == validOptionsOf(evaluatedOptions)
  IN  IF Len(validOptions) = 0
      THEN [choice |-> Undefined,
            reason |-> "No options meet the specified constraints",
            alternatives |-> Slice(validOptions, 0, 2)]
      ELSE LET topOption == topOf(validOptions)
           IN  [choice |-> Some(topOption),
                reason |-> generateRecommendationReason(topOption, validOptions),
                confidence |-> calculateConfidence(topOption, validOptions)]

generateRecommendation(evaluatedOptions, cons) ==
  LET validOptions == validOptionsOf(evaluatedOptions)
  IN  IF Len(validOptions) = 0
      THEN [choice |-> Undefined,
            reason |-> "No options meet the specified constraints",
            alternatives |-> Slice(evaluatedOptions, 0, 2)]
      ELSE LET topOption == topOf(validOptions)
           IN  [choice |-> Some(topOption),
                reason |-> generateRecommendationReason(topOption, validOptions),
                confidence |-> calculateConfidence(topOption, validOptions)]

\* optionB.scores[criterion].raw
rawOf(option, criterion) ==
  option.scores[keyIndex(option.scores, criterion)].raw

\* isDifferentiator with a threshold of 0
isDifferentiator_AnyDifference(aDiff) == (IF aDiff < 0 THEN -aDiff ELSE aDiff) > 0

\* Math.abs(aDiff) > 1
isDifferentiator(aDiff) == (IF aDiff < 0 THEN -aDiff ELSE aDiff) > 1

\* compareTwo with the else branch outside the threshold test: optionB is
\* credited with every criterion on which optionA does not lead by more than 1
compareTwo_ElseOutsideThreshold(optionA, optionB) ==
  LET aDiff(e) == e.raw - rawOf(optionB, e.criterion)
      aEntries == SelectSeq(optionA.scores,
                         LAMBDA e : isDifferentiator(aDiff(e)) /\ aDiff(e) > 0)
      bEntries == SelectSeq(optionA.scores,
                         LAMBDA e : ~(isDifferentiator(aDiff(e)) /\ aDiff(e) > 0))
      aStrengths == [k \in 1..Len(aEntries) |-> aEntries[k].criterion]
      bStrengths == [k \in 1..Len(bEntries) |-> bEntries[k].criterion]
  IN  [hasTradeoff |-> Len(aStrengths) > 0 /\ Len(bStrengths) > 0,
       optionA |-> optionA.name,
       optionB |-> optionB.name,
       aStrengths |-> aStrengths,
       bStrengths |-> bStrengths,
       summary |-> <<optionA.name, aStrengths, optionB.name, bStrengths>>]

compareTwo(optionA, optionB) ==
  LET aDiff(e) == e.raw - rawOf(optionB, e.criterion)
      aEntries == SelectSeq(optionA.scores,
                         LAMBDA e : isDifferentiator(aDiff(e)) /\ aDiff(e) > 0)
      bEntries == SelectSeq(optionA.scores,
                         LAMBDA e : isDifferentiator(aDiff(e)) /\ ~(aDiff(e) > 0))
      aStrengths == [k \in 1..Len(aEntries) |-> aEntries[k].criterion]
      bStrengths == [k \in 1..Len(bEntries) |-> bEntries[k].criterion]
  IN  [hasTradeoff |-> Len(aStrengths) > 0 /\ Len(bStrengths) > 0,
       optionA |-> optionA.name,
       optionB |-> optionB.name,
       aStrengths |-> aStrengths,
       bStrengths |-> bStrengths,
       summary |-> <<optionA.name, aStrengths, optionB.name, bStrengths>>]

\* the inner forEach: option i against every later option, from index j on
RECURSIVE tradeoffsOfRow(_, _, _)
tradeoffsOfRow(evaluatedOptions, i, j) ==
  IF j > Len(evaluatedOptions) THEN << >>
  ELSE LET comparison == compareTwo(evaluatedOptions[i], evaluatedOptions[j])
       IN  (IF comparison.hasTradeoff THEN <<comparison>> ELSE << >>)
             \o tradeoffsOfRow(evaluatedOptions, i, j + 1)

\* the outer forEach, from index i on
RECURSIVE tradeoffsFrom(_, _)
tradeoffsFrom(evaluatedOptions, i) ==
  IF i > Len(evaluatedOptions) THEN << >>
  ELSE tradeoffsOfRow(evaluatedOptions, i, i + 1)
         \o tradeoffsFrom(evaluatedOptions, i + 1)

analyzeTradeoffs(evaluatedOptions) == tradeoffsFrom(evaluatedOptions, 1)

\* insertByScore putting an element before the earlier elements of the same
\* totalScore: a sort that is not stable
RECURSIVE insertByScore_TiesReversed(_, _)
insertByScore_TiesReversed(sorted, e) ==
  IF sorted = << >> THEN <<e>>
  ELSE IF Head(sorted).totalScore > e.totalScore
       THEN <<Head(sorted)>> \o insertByScore_TiesReversed(Tail(sorted), e)
       ELSE <<e>> \o sorted

\* Array.prototype.sort((a, b) => b.totalScore - a.totalScore): stable, so an
\* element goes after every earlier element whose totalScore is not smaller
RECURSIVE insertByScore(_, _)
insertByScore(sorted, e) ==
  IF sorted = << >> THEN <<e>>
  ELSE IF Head(sorted).totalScore >= e.totalScore
       THEN <<Head(sorted)>> \o insertByScore(Tail(sorted), e)
       ELSE <<e>> \o sorted

RECURSIVE sortByScore(_, _)
sortByScore(s, n) ==
  IF n = 0 THEN << >> ELSE insertByScore(sortByScore(s, n - 1), s[n])

\* reduce over Object.entries(option.scores) from { criterion: '', score: 0 }
RECURSIVE keyStrengthFrom(_, _, _)
keyStrengthFrom(scores, best, i) ==
  IF i > Len(scores) THEN best
  ELSE keyStrengthFrom(scores,
         IF scores[i].raw > best.score
         THEN [criterion |-> scores[i].criterion, score |-> scores[i].raw]
         ELSE best,
         i + 1)

getKeyStrength(option) ==
  keyStrengthFrom(option.scores, [criterion |-> "", score |-> 0], 1).criterion

\* the sum of the raw scores of a criterion over the options 1..n
RECURSIVE rawSum(_, _, _)
rawSum(evaluatedOptions, criterion, n) ==
  IF n = 0 THEN 0
  ELSE rawSum(evaluatedOptions, criterion, n - 1)
         + rawOf(evaluatedOptions[n], criterion)

\* reduce over Object.entries(avgScores) from { criterion: '', score: 0 }; the
\* averages share the divisor evaluatedOptions.length, so they compare as the
\* sums do
RECURSIVE strongestFrom(_, _, _, _)
strongestFrom(evaluatedOptions, keys, best, i) ==
  IF i > Len(keys) THEN best
  ELSE LET sum == rawSum(evaluatedOptions, keys[i].criterion, Len(evaluatedOptions))
       IN  strongestFrom(evaluatedOptions, keys,
             IF sum > best.score
             THEN [criterion |-> keys[i].criterion, score |-> sum]
             ELSE best,
             i + 1)

\* Number.prototype.toFixed(1) of sum / n, in tenths (half rounds up)
toFixed1Avg(sum, n) == (20 * sum + n) \div (2 * n)

\* defined for a non-empty list only: evaluatedOptions[0].scores throws a
\* TypeError on an empty one
generateKeyInsight(evaluatedOptions, cons) ==
  LET strongestArea ==
        strongestFrom(evaluatedOptions, evaluatedOptions[1].scores,
                      [criterion |-> "", score |-> 0], 1)
  IN  [criterion |-> strongestArea.criterion,
       avg |-> toFixed1Avg(strongestArea.score, Len(evaluatedOptions))]

generateSummary(evaluatedOptions, cons) ==
  LET valid == validOptionsOf(evaluatedOptions)
      topThree == Slice(sortByScore(valid, Len(valid)), 0, 3)
  IN  [totalOptions |-> Len(evaluatedOptions),
       validOptions |-> Len(valid),
       topChoices |-> [k \in 1..Len(topThree) |->
                         [name |-> topThree[k].name,
                          score |-> toFixed2(topThree[k].totalScore),
                          keyStrength |-> getKeyStrength(topThree[k])]],
       keyInsight |-> generateKeyInsight(evaluatedOptions, cons)]

\* compareResult with generateSummary sorting the evaluated list in place:
\* the comparison returned is the list in descending order of totalScore
compareResult_SortedInPlace(evaluatedOptions, cons) ==
  IF Len(evaluatedOptions) = 0
  THEN [status |-> "rejected", error |-> "TypeError"]
  ELSE [status |-> "fulfilled",
        comparison |-> sortByScore(evaluatedOptions, Len(evaluatedOptions)),
        recommendation |-> generateRecommendation(evaluatedOptions, cons),
        tradeoffs |-> analyzeTradeoffs(evaluatedOptions),
        summary |-> generateSummary(evaluatedOptions, cons)]

\* the value compare settles with once evaluateOptions has resolved
compareResult(evaluatedOptions, cons) ==
  IF Len(evaluatedOptions) = 0
  THEN [status |-> "rejected", error |-> "TypeError"]
  ELSE [status |-> "fulfilled",
        comparison |-> evaluatedOptions,
        recommendation |-> generateRecommendation(evaluatedOptions, cons),
        tradeoffs |-> analyzeTradeoffs(evaluatedOptions),
        summary |-> generateSummary(evaluatedOptions, cons)]

----------------------------------------------------------------------------
(* Referee.compareOptions -> RefereeEngine.compare, as a state machine *)

\* promiseAllStore pushing the value in the order of completion
promiseAllStore_Push(vals, index, value) ==
  LET free == CHOOSE k \in 1..Len(vals) :
                vals[k] = Undefined /\ \A j \in 1..(k - 1) : vals[j] # Undefined
  IN  [vals EXCEPT ![free] = Some(value)]

\* Promise.all keeps each promise's value at the index of the promise
promiseAllStore(vals, index, value) == [vals EXCEPT ![index] = Some(value)]

OptionObjects ==
  [name : {"?"},
   cost : {Undefined} \cup {Some(c) : c \in 1..MaxCost},
   features : {Undefined}]

\* option objects that carry a name only
PlainOptionObjects == {o \in OptionObjects : o.cost = Undefined}

\* the option lists a caller passes: the i-th object is named OptionNames[i]
OptionListsOf(objects) ==
  UNION {
    {[i \in 1..n |-> [f[i] EXCEPT !.name = OptionNames[i]]] :
       f \in [1..n -> objects]} : n \in 0..MaxOptions}

CriteriaLists ==
  UNION {[1..m -> CriteriaNames] : m \in 0..MaxCriteria}

ConstraintObjects ==
  [maxCost : {Undefined} \cup {Some(k) : k \in 0..MaxCost},
   requiredFeatures : {Undefined},
   weights : {Undefined} \cup {Some([performance |-> w]) : w \in CallerWeights}]

\* compare(options, criteria): constraints = {}
NoConstraints ==
  [maxCost |-> Undefined, requiredFeatures |-> Undefined, weights |-> Undefined]

\* compareOptions(options, criteria, constraints)
InitConstrained ==
  /\ options \in OptionListsOf(OptionObjects)
  /\ criteria \in CriteriaLists
  /\ Len(options) * Len(criteria) <= MaxCalls
  /\ constraints \in ConstraintObjects

\* compareOptions(options, criteria)
InitPlain ==
  /\ options \in OptionListsOf(PlainOptionObjects)
  /\ criteria \in CriteriaLists
  /\ Len(options) * Len(criteria) <= MaxPlainCalls
  /\ constraints = NoConstraints

Init ==
  /\ call = "compareOptions"
  /\ (InitConstrained \/ InitPlain)
  /\ task = << >>
  /\ values = << >>
  /\ result = [status |-> "called"]
  /\ scorer = Undefined
  /\ request = Undefined
  /\ response = Undefined

\* compare calls evaluateOptions: options.map starts one callback per option;
\* with no criterion to score a callback returns its record at once
Start ==
  /\ call = "compareOptions"
  /\ result.status = "called"
  /\ task' = [i \in 1..Len(options) |->
                [pos |-> 0, scores |-> << >>, totalScore |-> 0]]
  /\ values' = [i \in 1..Len(options) |->
                  IF Len(criteria) = 0
                  THEN Some(EvaluatedOption(options[i], << >>, 0, constraints))
                  ELSE Undefined]
  /\ result' = [status |-> "pending"]
  /\ UNCHANGED <<scorer, request, response, call, options, criteria, constraints>>

\* baseScores drawing any value although the generator is stubbed
baseScores_StubIgnored(option, criterion) == RawValues

\* the values Math.random() * 10 can take in one call of evaluateCriterion:
\* any value, or the one value a stubbed generator is fixed to return for
\* the option and criterion
baseScores(option, criterion) ==
  IF scorer = Undefined THEN RawValues
  ELSE {scorer[1][option.name][criterion]}

\* the callback of option i scores its next criterion and resumes after the
\* await; after the last criterion it returns its record
Score(i) ==
  /\ call = "compareOptions"
  /\ result.status = "pending"
  /\ i \in 1..Len(options)
  /\ values[i] = Undefined
  /\ task[i].pos < Len(criteria)
  /\ \E baseScore \in baseScores(options[i], criteria[task[i].pos + 1]) :
       LET criterion == criteria[task[i].pos + 1]
           score == evaluateCriterion(options[i], criterion, constraints, baseScore)
           scores == PutScore(task[i].scores, criterion, score)
           totalScore == task[i].totalScore + score.weighted
       IN  /\ task' = [task EXCEPT ![i] =
                         [pos |-> task[i].pos + 1, scores |-> scores,
                          totalScore |-> totalScore]]
           /\ values' =
                IF task[i].pos + 1 = Len(criteria)
                THEN promiseAllStore(values, i,
                       EvaluatedOption(options[i], scores, totalScore, constraints))
                ELSE values
  /\ UNCHANGED <<scorer, request, response, call, options, criteria, constraints, result>>

\* Join resolving as soon as one callback has returned, with the records
\* returned so far
Join_AnyReturned ==
  /\ call = "compareOptions"
  /\ result.status = "pending"
  /\ \E i \in 1..Len(options) : values[i] # Undefined
  /\ result' = LET done == SelectSeq(values, LAMBDA v : v # Undefined)
               IN  compareResult([k \in 1..Len(done) |-> done[k][1]], constraints)
  /\ UNCHANGED <<scorer, request, response, call, options, criteria, constraints, task, values>>

\* Promise.all resolves once every callback has returned; compare builds its
\* result from the evaluated options
Join ==
  /\ call = "compareOptions"
  /\ result.status = "pending"
  /\ \A i \in 1..Len(options) : values[i] # Undefined
  /\ result' = compareResult([i \in 1..Len(options) |-> values[i][1]], constraints)
  /\ UNCHANGED <<scorer, request, response, call, options, criteria, constraints, task, values>>

Next ==
  \/ Start
  \/ \E i \in 1..MaxOptions : Score(i)
  \/ Join

Spec == Init /\ [][Next]_vars

----------------------------------------------------------------------------
(* The selection step of the three domain comparators.  The call's argument *)
(* list is held in options, its constraints in constraints.                 *)

\* totalScore values of the evaluated services and APIs
TotalValues == {300, 350, 800}
\* estimatedCost.monthly values, in tenths of a dollar
MonthlyValues == {95, 100}
\* constraints.maxMonthlyCost values, in tenths of a dollar
MaxMonthlyValues == {0, 96}

\* scores.sort((a, b) => b - a), on numbers
RECURSIVE insertDesc(_, _)
insertDesc(sorted, x) ==
  IF sorted = << >> THEN <<x>>
  ELSE IF Head(sorted) >= x THEN <<Head(sorted)>> \o insertDesc(Tail(sorted), x)
       ELSE <<x>> \o sorted

RECURSIVE sortDesc(_, _)
sortDesc(s, n) == IF n = 0 THEN << >> ELSE insertDesc(sortDesc(s, n - 1), s[n])

\* allX.map(x => x.totalScore).sort((a, b) => b - a)
sortedScores(all) == sortDesc([k \in 1..Len(all) |-> all[k].totalScore], Len(all))

\* Cloud_calculateConfidence without the cap of Math.min
Cloud_calculateConfidence_Uncapped(topService, allServices) ==
  IF Len(allServices) < 2 THEN 3000
  ELSE LET scores == sortedScores(allServices)
       IN  1800 + 6 * (scores[1] - scores[2])

\* CloudServiceComparator: Math.min(0.6 + (scoreDiff / 5), 1.0)
Cloud_calculateConfidence(topService, allServices) ==
  IF Len(allServices) < 2 THEN 3000
  ELSE LET scores == sortedScores(allServices)
           c == 1800 + 6 * (scores[1] - scores[2])
       IN  IF c < 3000 THEN c ELSE 3000

\* Math.max(...costs)
maxOf(S) == CHOOSE x \in S : \A y \in S : y <= x

\* percentage is (savings / maxCost) * 100, kept as the fraction it is
calculateSavings(chosenService, allServices) ==
  LET maxCost == maxOf({allServices[k].estimatedCost.monthly : k \in 1..Len(allServices)})
      savings == maxCost - chosenService.estimatedCost.monthly
  IN  [monthly |-> savings, yearly |-> savings * 12,
       percentage |-> <<savings * 100, maxCost>>]

\* the services left by the hard constraints of selectBestService
validServicesOf(services, cons) ==
  LET byCost ==
        IF cons.maxMonthlyCost # Undefined /\ cons.maxMonthlyCost[1] # 0
        THEN SelectSeq(services,
                    LAMBDA sv : sv.estimatedCost.monthly <= cons.maxMonthlyCost[1])
        ELSE services
  IN  IF cons.requiredCompliance # Undefined
      THEN SelectSeq(byCost,
                  LAMBDA sv : \A k \in 1..Len(cons.requiredCompliance[1]) :
                                cons.requiredCompliance[1][k] \in sv.compliance)
      ELSE byCost

selectBestService(services, cons) ==
  LET validServices == validServicesOf(services, cons)
  IN  IF Len(validServices) = 0
      THEN [choice |-> Undefined,
            reason |-> "No services meet the specified constraints",
            alternatives |-> Slice(services, 0, 2)]
      ELSE LET topService == topOf(validServices)
           IN  [choice |-> Some(topService),
                reason |-> toFixed2(topService.totalScore),
                confidence |-> Cloud_calculateConfidence(topService, validServices),
                costSavings |-> calculateSavings(topService, validServices)]

\* TechStackComparator: Math.min(0.6 + (scoreDiff / 3), 1.0); a stack's
\* totalScore is in thousandths of a point, so that the default weight 1 / 8
\* is a whole number (125)
TechStack_calculateConfidence(topStack, allStacks) ==
  IF Len(allStacks) < 2 THEN 3000
  ELSE LET scores == sortedScores(allStacks)
           c == 1800 + (scores[1] - scores[2])
       IN  IF c < 3000 THEN c ELSE 3000

\* keyFactors, which read the requirements only, are left out of the record
selectBestStack(stacks, requirements) ==
  IF Len(stacks) = 0
  THEN [choice |-> Undefined,
        reason |-> "No suitable stacks found for requirements"]
  ELSE LET topStack == topOf(stacks)
       IN  [choice |-> Some(topStack),
            reason |-> toFixed2((topStack.totalScore + 5) \div 10),
            confidence |-> TechStack_calculateConfidence(topStack, stacks)]

\* APIComparator: Math.min(0.6 + (scoreDiff / 10), 1.0)
API_calculateConfidence(topAPI, allAPIs) ==
  IF Len(allAPIs) < 2 THEN 3000
  ELSE LET scores == sortedScores(allAPIs)
           c == 1800 + 3 * (scores[1] - scores[2])
       IN  IF c < 3000 THEN c ELSE 3000

\* the APIs selectBestAPI chooses among
validAPIsOf(apis) == SelectSeq(apis, LAMBDA api : api.health.available)

selectBestAPI(apis, cons) ==
  LET validAPIs == validAPIsOf(apis)
  IN  IF Len(validAPIs) = 0
      THEN [choice |-> Undefined,
            reason |-> "No APIs are currently available",
            alternatives |-> Slice(apis, 0, 2)]
      ELSE LET topAPI == topOf(validAPIs)
           IN  [choice |-> Some(topAPI),
                reason |-> toFixed2(topAPI.totalScore),
                confidence |-> API_calculateConfidence(topAPI, validAPIs),
                alternatives |->
                  Slice(SelectSeq(validAPIs, LAMBDA api : api # topAPI), 0, 2)]

\* evaluated services, as evaluateServices returns them (the fields the
\* selection reads)
ServiceObjects ==
  [name : {"?"}, totalScore : TotalValues,
   estimatedCost : [monthly : MonthlyValues],
   compliance : {{"SOC", "PCI-DSS"}, {"SOC", "FedRAMP"}}]

\* totalScore values of the evaluated stacks, in thousandths of a point
StackTotalValues == {3000, 3500, 8000}

StackObjects == [name : {"?"}, totalScore : StackTotalValues]

APIObjects ==
  [name : {"?"}, totalScore : TotalValues, health : [available : BOOLEAN]]

ServiceConstraints ==
  [maxMonthlyCost : {Undefined} \cup {Some(k) : k \in MaxMonthlyValues},
   requiredCompliance : {Undefined, Some(<<"FedRAMP">>)}]

InitSelect ==
  /\ call \in {"selectBestService", "selectBestStack", "selectBestAPI"}
  /\ \/ /\ call = "selectBestService"
        /\ options \in OptionListsOf(ServiceObjects)
        /\ constraints \in ServiceConstraints
     \/ /\ call = "selectBestStack"
        /\ options \in OptionListsOf(StackObjects)
        /\ constraints = << >>
     \/ /\ call = "selectBestAPI"
        /\ options \in OptionListsOf(APIObjects)
        /\ constraints = << >>
  /\ criteria = << >>
  /\ task = << >>
  /\ values = << >>
  /\ result = [status |-> "called"]
  /\ scorer = Undefined
  /\ request = Undefined
  /\ response = Undefined

SelectService ==
  /\ call = "selectBestService"
  /\ result.status = "called"
  /\ result' = [status |-> "fulfilled",
                recommendation |-> selectBestService(options, constraints)]
  /\ UNCHANGED <<scorer, request, response, call, options, criteria, constraints, task, values>>

SelectStack ==
  /\ call = "selectBestStack"
  /\ result.status = "called"
  /\ result' = [status |-> "fulfilled",
                recommendation |-> selectBestStack(options, constraints)]
  /\ UNCHANGED <<scorer, request, response, call, options, criteria, constraints, task, values>>

SelectAPI ==
  /\ call = "selectBestAPI"
  /\ result.status = "called"
  /\ result' = [status |-> "fulfilled",
                recommendation |-> selectBestAPI(options, constraints)]
  /\ UNCHANGED <<scorer, request, response, call, options, criteria, constraints, task, values>>

NextSelect == SelectService \/ SelectStack \/ SelectAPI

SpecSelect == InitSelect /\ [][NextSelect]_vars

\* every recommendation the repository builds: the engine's and the three
\* comparators'
InitRecommend == Init \/ InitSelect

NextRecommend ==
  \/ Start
  \/ \E i \in 1..MaxOptions : Score(i)
  \/ Join
  \/ SelectService
  \/ SelectStack
  \/ SelectAPI

SpecRecommend == InitRecommend /\ [][NextRecommend]_vars

----------------------------------------------------------------------------
(* compareOptions under caller weights, over named and unnamed criteria *)

\* criterion names a caller passes: two keys of defaultWeights and a name
\* defaultWeights does not hold
ScoringCriteriaNames == {"performance", "cost", "security"}
\* weights a caller passes for "performance": 0, 0.5 and 1
ScoringWeights == {0, 50, 100}

ScoringConstraints ==
  {[NoConstraints EXCEPT !.weights = w] :
     w \in {Undefined} \cup {Some([performance |-> x]) : x \in ScoringWeights}}

InitScoring ==
  /\ call = "compareOptions"
  /\ options \in OptionListsOf(PlainOptionObjects)
  /\ criteria \in UNION {[1..m -> ScoringCriteriaNames] : m \in 0..MaxCriteria}
  /\ Len(options) * Len(criteria) <= MaxCalls
  /\ constraints \in ScoringConstraints
  /\ task = << >>
  /\ values = << >>
  /\ result = [status |-> "called"]
  /\ scorer = Undefined
  /\ request = Undefined
  /\ response = Undefined

SpecScoring == InitScoring /\ [][Next]_vars

----------------------------------------------------------------------------
(* compareOptions when a call of evaluateCriterion may throw *)

\* the await in the callback of option i throws: nothing in evaluateOptions
\* or compare catches it, so the callback's promise rejects, Promise.all
\* rejects with it and compare rejects
ScoreFails(i) ==
  /\ call = "compareOptions"
  /\ result.status = "pending"
  /\ i \in 1..Len(options)
  /\ values[i] = Undefined
  /\ task[i].pos < Len(criteria)
  /\ result' = [status |-> "rejected", error |-> "ScorerError"]
  /\ UNCHANGED <<scorer, request, response, call, options, criteria,
                 constraints, task, values>>

NextScorerFails ==
  \/ Start
  \/ \E i \in 1..MaxOptions : Score(i)
  \/ \E i \in 1..MaxOptions : ScoreFails(i)
  \/ Join

SpecScorerFails == InitScoring /\ [][NextScorerFails]_vars

----------------------------------------------------------------------------
(* compareOptions with Math.random stubbed to fixed values *)

\* one fixed value of Math.random() * 10 per option and criterion
FixedScorers(n) ==
  [{OptionNames[i] : i \in 1..n} -> [CriteriaNames -> RawValues]]

InitFixedScorer ==
  /\ call = "compareOptions"
  /\ options \in OptionListsOf(PlainOptionObjects)
  /\ criteria \in CriteriaLists
  /\ Len(options) * Len(criteria) <= MaxCalls
  /\ constraints \in {c \in ConstraintObjects : c.maxCost = Undefined}
  /\ scorer \in {Some(t) : t \in FixedScorers(Len(options))}
  /\ task = << >>
  /\ values = << >>
  /\ result = [status |-> "called"]
  /\ request = Undefined
  /\ response = Undefined

SpecFixedScorer == InitFixedScorer /\ [][Next]_vars

----------------------------------------------------------------------------
(* server.js: the POST routes /api/compare/general, /api/compare/apis and   *)
(* /api/compare/cloud.  The file holds two servers, one after the other;    *)
(* the routes of both are modelled.  req.body is the object express.json()  *)
(* parsed; a field of it is absent (or null), a non-empty string, or an     *)
(* array.                                                                   *)

Servers == {"first", "second"}
Routes == {"general", "apis", "cloud"}

Absent == [kind |-> "absent", items |-> << >>]
\* a string of two characters: truthy, with a length, not an array
StringField == [kind |-> "string", items |-> <<"a", "b">>]
ArrayField(items) == [kind |-> "array", items |-> items]

\* !x
falsy(field) == field.kind = "absent"
\* Array.isArray(x)
isArray(field) == field.kind = "array"

\* listRejected accepting a list of one element
listRejected_AtLeastOne(field) ==
  falsy(field) \/ ~isArray(field) \/ Len(field.items) < 1

\* !options || !Array.isArray(options) || options.length < 2
listRejected(field) ==
  falsy(field) \/ ~isArray(field) \/ Len(field.items) < 2

\* !criteria || !Array.isArray(criteria)
criteriaRejected(field) == falsy(field) \/ ~isArray(field)

\* the loop of the second server's /api/compare/apis:
\* some api has !api.name || !api.endpoint
apiObjectsRejected(items) ==
  \E k \in 1..Len(items) :
    items[k].name = Undefined \/ items[k].endpoint = Undefined

\* the arrays of api objects a client posts: each with or without a name
\* and an endpoint
APIRequestLists ==
  UNION {
    {[i \in 1..n |-> [name |-> IF f[i].named THEN Some(OptionNames[i])
                               ELSE Undefined,
                      endpoint |-> IF f[i].located THEN Some("url")
                                   ELSE Undefined]] :
       f \in [1..n -> [named : BOOLEAN, located : BOOLEAN]]} :
    n \in 0..MaxOptions}

ListFields(lists) == {Absent, StringField} \cup {ArrayField(l) : l \in lists}

\* { options, criteria, constraints } of /api/compare/general
GeneralBodies ==
  {b \in [list : ListFields(OptionListsOf(PlainOptionObjects)),
          criteria : ListFields(CriteriaLists),
          constraints : {Undefined} \cup
                        {Some(c) : c \in {k \in ConstraintObjects :
                                            k.maxCost = Undefined}}] :
     Len(b.list.items) * Len(b.criteria.items) <= MaxCalls}

\* { apis, options } of /api/compare/apis and { services, options } of
\* /api/compare/cloud, options left out
ListBodies(lists) ==
  [list : ListFields(lists), criteria : {Absent}, constraints : {Undefined}]

Requests ==
  [server : Servers, route : {"general"}, body : GeneralBodies]
    \cup [server : Servers, route : {"apis"}, body : ListBodies(APIRequestLists)]
    \cup [server : Servers, route : {"cloud"},
          body : ListBodies(OptionListsOf(PlainOptionObjects))]

InitHttp ==
  /\ call = "http"
  /\ request \in {Some(r) : r \in Requests}
  /\ response = Undefined
  /\ options = << >>
  /\ criteria = << >>
  /\ constraints = NoConstraints
  /\ task = << >>
  /\ values = << >>
  /\ result = [status |-> "idle"]
  /\ scorer = Undefined

\* res.status(400).json({ error })
BadRequest(error) == Some([status |-> 400, error |-> error])

\* the handler has the request and has not yet answered or called the referee
Received(route) ==
  /\ call = "http"
  /\ request # Undefined
  /\ request[1].route = route
  /\ response = Undefined

\* POST /api/compare/general, up to the await of referee.compareOptions
HandleGeneral ==
  /\ Received("general")
  /\ LET body == request[1].body
     IN  IF listRejected(body.list)
         THEN /\ response' = BadRequest("Please provide at least 2 options to compare")
              /\ UNCHANGED <<call, options, criteria, constraints, result>>
         ELSE IF criteriaRejected(body.criteria)
         THEN /\ response' = BadRequest("Please provide comparison criteria")
              /\ UNCHANGED <<call, options, criteria, constraints, result>>
         ELSE /\ call' = "compareOptions"
              /\ options' = body.list.items
              /\ criteria' = body.criteria.items
              /\ constraints' = IF body.constraints = Undefined THEN NoConstraints
                                ELSE body.constraints[1]
              /\ result' = [status |-> "called"]
              /\ UNCHANGED response
  /\ UNCHANGED <<scorer, request, task, values>>

\* POST /api/compare/apis, up to the await of referee.compareAPIs; the second
\* server also tests every api object
HandleAPIs ==
  /\ Received("apis")
  /\ LET body == request[1].body
     IN  IF listRejected(body.list)
         THEN /\ response' = BadRequest("Please provide at least 2 APIs to compare")
              /\ UNCHANGED <<call, options, result>>
         ELSE IF request[1].server = "second" /\ apiObjectsRejected(body.list.items)
         THEN /\ response' = BadRequest("Each API must have a name and endpoint")
              /\ UNCHANGED <<call, options, result>>
         ELSE /\ call' = "compareAPIs"
              /\ options' = body.list.items
              /\ result' = [status |-> "called"]
              /\ UNCHANGED response
  /\ UNCHANGED <<scorer, request, criteria, constraints, task, values>>

\* POST /api/compare/cloud, up to the await of referee.compareCloudServices
HandleCloud ==
  /\ Received("cloud")
  /\ LET body == request[1].body
     IN  IF listRejected(body.list)
         THEN /\ response' = BadRequest("Please provide at least 2 cloud services to compare")
              /\ UNCHANGED <<call, options, result>>
         ELSE /\ call' = "compareCloudServices"
              /\ options' = body.list.items
              /\ result' = [status |-> "called"]
              /\ UNCHANGED response
  /\ UNCHANGED <<scorer, request, criteria, constraints, task, values>>

\* referee.compareAPIs / compareCloudServices settles; what the comparator
\* computes is not unfolded here, so it may fulfil or reject
ComparatorSettles ==
  /\ call \in {"compareAPIs", "compareCloudServices"}
  /\ result.status = "called"
  /\ result' \in {[status |-> "fulfilled"],
                  [status |-> "rejected", error |-> "Error"]}
  /\ UNCHANGED <<scorer, request, response, call, options, criteria,
                 constraints, task, values>>

\* the await returns: res.json(result), or the catch block's
\* res.status(500).json({ error, message })
Respond ==
  /\ request # Undefined
  /\ response = Undefined
  /\ result.status \in {"fulfilled", "rejected"}
  /\ response' = IF result.status = "fulfilled"
                 THEN Some([status |-> 200, body |-> result])
                 ELSE Some([status |-> 500,
                            error |-> CASE request[1].route = "general" ->
                                             "Failed to compare options"
                                        [] request[1].route = "apis" ->
                                             "Failed to compare APIs"
                                        [] request[1].route = "cloud" ->
                                             "Failed to compare cloud services",
                            message |-> result.error])
  /\ UNCHANGED <<scorer, request, call, options, criteria, constraints,
                 task, values, result>>

NextHttp ==
  \/ HandleGeneral
  \/ HandleAPIs
  \/ HandleCloud
  \/ Start
  \/ \E i \in 1..MaxOptions : Score(i)
  \/ Join
  \/ ComparatorSettles
  \/ Respond

SpecHttp == InitHttp /\ [][NextHttp]_vars

----------------------------------------------------------------------------
(* compareOptions under requiredFeatures and maxCost *)

\* option.features: no feature set, or one of two sets
FeatureSets == {Undefined, Some({"sso"}), Some({"sso", "api"})}
\* constraints.requiredFeatures: none, the empty list, or two features
RequiredFeatureLists == {Undefined, Some(<< >>), Some(<<"sso", "api">>)}

FeatureOptionObjects ==
  [name : {"?"},
   cost : {Undefined} \cup {Some(c) : c \in 1..MaxCost},
   features : FeatureSets]

FeatureConstraints ==
  [maxCost : {Undefined} \cup {Some(k) : k \in 0..MaxCost},
   requiredFeatures : RequiredFeatureLists,
   weights : {Undefined}]

InitFeatures ==
  /\ call = "compareOptions"
  /\ options \in OptionListsOf(FeatureOptionObjects)
  /\ criteria \in CriteriaLists
  /\ Len(options) * (Len(criteria) + 1) <= MaxCalls
  /\ constraints \in FeatureConstraints
  /\ task = << >>
  /\ values = << >>
  /\ result = [status |-> "called"]
  /\ scorer = Undefined
  /\ request = Undefined
  /\ response = Undefined

SpecFeatures == InitFeatures /\ [][Next]_vars

----------------------------------------------------------------------------
(* TechStackComparator.recommend.  The requirements are held in            *)
(* constraints, the suitable stacks in options, the evaluated stacks in    *)
(* values.  The texts pros, cons, bestFor, tradeoffAnalysis and keyFactors *)
(* are derived from the fields kept here and are left out.                 *)

\* this.techStacks, in the order of its keys
techStacks == <<
  [name |-> "MEAN",
   technologies |-> <<"MongoDB", "Express.js", "Angular", "Node.js">>,
   strengths |-> {"javascript_everywhere", "rapid_development", "json_native"},
   weaknesses |-> {"callback_complexity", "single_threaded"},
   learningCurve |-> "medium", communitySize |-> "large",
   jobMarket |-> "excellent"],
  [name |-> "MERN",
   technologies |-> <<"MongoDB", "Express.js", "React", "Node.js">>,
   strengths |-> {"component_based", "virtual_dom", "flexible"},
   weaknesses |-> {"jsx_learning", "rapid_changes"},
   learningCurve |-> "medium", communitySize |-> "very_large",
   jobMarket |-> "excellent"],
  [name |-> "LAMP",
   technologies |-> <<"Linux", "Apache", "MySQL", "PHP">>,
   strengths |-> {"mature", "cost_effective", "widely_supported"},
   weaknesses |-> {"performance_limitations", "security_concerns"},
   learningCurve |-> "low", communitySize |-> "large",
   jobMarket |-> "good"],
  [name |-> "Django_Stack",
   technologies |-> <<"Python", "Django", "PostgreSQL", "Redis">>,
   strengths |-> {"rapid_development", "batteries_included", "secure"},
   weaknesses |-> {"monolithic", "python_gil"},
   learningCurve |-> "low", communitySize |-> "large",
   jobMarket |-> "excellent"],
  [name |-> "Spring_Boot",
   technologies |-> <<"Java", "Spring Boot", "PostgreSQL", "Maven">>,
   strengths |-> {"enterprise_ready", "scalable", "robust"},
   weaknesses |-> {"verbose", "memory_intensive"},
   learningCurve |-> "high", communitySize |-> "very_large",
   jobMarket |-> "excellent"],
  [name |-> "Rails_Stack",
   technologies |-> <<"Ruby", "Rails", "PostgreSQL", "Redis">>,
   strengths |-> {"convention_over_config", "rapid_prototyping", "elegant"},
   weaknesses |-> {"performance", "declining_popularity"},
   learningCurve |-> "medium", communitySize |-> "medium",
   jobMarket |-> "good"] >>

\* this.criteria
TechStack_criteria ==
  <<"development_speed", "performance", "scalability", "learning_curve",
    "community_support", "job_market", "maintenance_cost", "security">>

\* this.techStacks[name], with the name spread into the object
stackNamed(name) ==
  techStacks[CHOOSE k \in 1..Len(techStacks) : techStacks[k].name = name]

\* stack.includes(part) on a key of techStacks: none of the six keys contains
\* "Angular" or "React"
stackNameIncludes(name, part) == FALSE

\* the candidates of a project type
candidatesByType(requirements) ==
  IF requirements.projectType = "web_app" THEN techStacks
  ELSE IF requirements.projectType = "api"
  THEN SelectSeq(techStacks,
         LAMBDA stack : /\ ~stackNameIncludes(stack.name, "Angular")
                        /\ ~stackNameIncludes(stack.name, "React"))
  ELSE IF requirements.projectType = "enterprise"
  THEN <<stackNamed("Spring_Boot"), stackNamed("Django_Stack")>>
  ELSE techStacks

\* the filters by team experience and by timeline
filterByTeamAndTimeline(candidateStacks, requirements) ==
  LET byTeam ==
        IF requirements.teamExperience = "beginner"
        THEN SelectSeq(candidateStacks,
               LAMBDA stack : stack.learningCurve \in {"low", "medium"})
        ELSE candidateStacks
  IN  IF requirements.timeline = "urgent"
      THEN SelectSeq(byTeam,
             LAMBDA stack : "rapid_development" \in stack.strengths
                              \/ "rapid_prototyping" \in stack.strengths)
      ELSE byTeam

\* filterStacksByRequirements with Spring_Boot as the only enterprise stack
filterStacksByRequirements_EnterpriseSpringOnly(requirements) ==
  filterByTeamAndTimeline(
    IF requirements.projectType = "enterprise"
    THEN <<stackNamed("Spring_Boot")>>
    ELSE candidatesByType(requirements),
    requirements)

filterStacksByRequirements(requirements) ==
  filterByTeamAndTimeline(candidatesByType(requirements), requirements)

\* requirements.weights?.[criterion] || (1 / this.criteria.length), in
\* thousandths
TechStack_weightFor(requirements, criterion) ==
  LET given == IF /\ requirements.weights # Undefined
                  /\ criterion \in DOMAIN requirements.weights[1]
               THEN requirements.weights[1][criterion] ELSE 0
  IN  IF given # 0 THEN given ELSE 1000 \div Len(TechStack_criteria)

\* the score the switch of evaluateStackCriterion assigns; 5 for a criterion
\* it has no case for
stackRawScore(stack, criterion) ==
  CASE criterion = "development_speed" ->
         IF "rapid_development" \in stack.strengths
              \/ "rapid_prototyping" \in stack.strengths THEN 8
         ELSE IF "convention_over_config" \in stack.strengths THEN 7
         ELSE 5
    [] criterion = "performance" ->
         IF stack.name = "Spring_Boot" THEN 8
         ELSE IF "performance" \in stack.weaknesses THEN 4
         ELSE 6
    [] criterion = "scalability" ->
         IF "scalable" \in stack.strengths THEN 8
         ELSE IF "monolithic" \in stack.weaknesses THEN 5
         ELSE 6
    [] criterion = "learning_curve" ->
         CASE stack.learningCurve = "low" -> 8
           [] stack.learningCurve = "medium" -> 6
           [] stack.learningCurve = "high" -> 3
           [] OTHER -> 5
    [] criterion = "community_support" ->
         CASE stack.communitySize = "very_large" -> 9
           [] stack.communitySize = "large" -> 7
           [] stack.communitySize = "medium" -> 5
           [] stack.communitySize = "small" -> 3
           [] OTHER -> 5
    [] criterion = "job_market" ->
         CASE stack.jobMarket = "excellent" -> 9
           [] stack.jobMarket = "good" -> 7
           [] stack.jobMarket = "fair" -> 5
           [] stack.jobMarket = "poor" -> 3
           [] OTHER -> 5
    [] criterion = "maintenance_cost" ->
         IF "cost_effective" \in stack.strengths THEN 8
         ELSE IF "memory_intensive" \in stack.weaknesses THEN 4
         ELSE 6
    [] criterion = "security" ->
         IF "secure" \in stack.strengths THEN 8
         ELSE IF "security_concerns" \in stack.weaknesses THEN 4
         ELSE 6
    [] OTHER -> 5

\* the explanation text is left out
evaluateStackCriterion(stack, criterion, requirements) ==
  [raw |-> stackRawScore(stack, criterion),
   weighted |-> stackRawScore(stack, criterion)
                  * TechStack_weightFor(requirements, criterion)]

\* Object.values(scores).reduce((sum, score) => sum + score.weighted, 0),
\* over the first n scores
RECURSIVE sumOfWeighted(_, _)
sumOfWeighted(scores, n) ==
  IF n = 0 THEN 0 ELSE sumOfWeighted(scores, n - 1) + scores[n].weighted

\* the callback of evaluateStacks, run to its return
evaluateStack(stack, requirements) ==
  LET scores ==
        [k \in 1..Len(TechStack_criteria) |->
           LET score == evaluateStackCriterion(stack, TechStack_criteria[k],
                                               requirements)
           IN  [criterion |-> TechStack_criteria[k], raw |-> score.raw,
                weighted |-> score.weighted]]
  IN  [name |-> stack.name, technologies |-> stack.technologies,
       strengths |-> stack.strengths, weaknesses |-> stack.weaknesses,
       learningCurve |-> stack.learningCurve,
       communitySize |-> stack.communitySize, jobMarket |-> stack.jobMarket,
       scores |-> scores, totalScore |-> sumOfWeighted(scores, Len(scores))]

\* the first task of phase 1, `Install ${technologies.join(', ')}`, and the
\* two durations that depend on the requirements
generateImplementationPlan(recommendedStack, requirements) ==
  [setup |-> recommendedStack.technologies,
   coreDuration |-> IF requirements.timeline = "urgent" THEN "2-4 weeks"
                    ELSE "4-8 weeks",
   totalEstimate |-> IF requirements.timeline = "urgent" THEN "4-7 weeks"
                     ELSE "6-12 weeks"]

\* the value recommend settles with: on an empty list evaluatedStacks[0] is
\* undefined and generateImplementationPlan throws a TypeError
recommendResult(evaluatedStacks, requirements) ==
  IF Len(evaluatedStacks) = 0
  THEN [status |-> "rejected", error |-> "TypeError"]
  ELSE [status |-> "fulfilled",
        recommendation |-> selectBestStack(evaluatedStacks, requirements),
        alternatives |-> Slice(evaluatedStacks, 0, 3),
        comparison |-> evaluatedStacks,
        implementationPlan |->
          generateImplementationPlan(evaluatedStacks[1], requirements)]

TechStackRequirements ==
  [projectType : {"web_app", "api", "enterprise", "mobile"},
   teamExperience : {"beginner", "intermediate"},
   timeline : {"urgent", "flexible"},
   weights : {Undefined, Some([performance |-> 1000]),
              Some([learning_curve |-> 1000, security |-> 0])}]

InitTechStack ==
  /\ call = "recommendTechStack"
  /\ constraints \in TechStackRequirements
  /\ options = << >>
  /\ criteria = TechStack_criteria
  /\ task = << >>
  /\ values = << >>
  /\ result = [status |-> "called"]
  /\ scorer = Undefined
  /\ request = Undefined
  /\ response = Undefined

\* recommend filters the catalogue and evaluateStacks starts one callback per
\* suitable stack
RecommendStart ==
  /\ call = "recommendTechStack"
  /\ result.status = "called"
  /\ options' = filterStacksByRequirements(constraints)
  /\ values' = [i \in 1..Len(filterStacksByRequirements(constraints)) |-> Undefined]
  /\ result' = [status |-> "pending"]
  /\ UNCHANGED <<scorer, request, response, call, criteria, constraints, task>>

\* the callback of stack i returns its record
EvaluateStack(i) ==
  /\ call = "recommendTechStack"
  /\ result.status = "pending"
  /\ i \in 1..Len(options)
  /\ values[i] = Undefined
  /\ values' = promiseAllStore(values, i, evaluateStack(options[i], constraints))
  /\ UNCHANGED <<scorer, request, response, call, options, criteria,
                 constraints, task, result>>

\* Promise.all resolves and recommend builds its result
RecommendJoin ==
  /\ call = "recommendTechStack"
  /\ result.status = "pending"
  /\ \A i \in 1..Len(options) : values[i] # Undefined
  /\ result' = recommendResult([i \in 1..Len(options) |-> values[i][1]],
                               constraints)
  /\ UNCHANGED <<scorer, request, response, call, options, criteria,
                 constraints, task, values>>

NextTechStack ==
  \/ RecommendStart
  \/ \E i \in 1..Len(techStacks) : EvaluateStack(i)
  \/ RecommendJoin

SpecTechStack == InitTechStack /\ [][NextTechStack]_vars

----------------------------------------------------------------------------
(* APIComparator.compare: enhanceAPIData probes every API, evaluateAPIs    *)
(* scores the enhanced records, selectBestAPI chooses.  The argument list  *)
(* is held in options, options.constraints in constraints, the enhanced    *)
(* records in task and the evaluated records in values.  Weights and       *)
(* totals are in hundredths of a point.  The text lists pros, cons and     *)
(* bestFor of a record, and tradeoffAnalysis and useCaseRecommendations of *)
(* the result, are derived from the fields below and are left out.         *)

API_defaultCriteria ==
  <<"performance", "reliability", "documentation", "rate_limits", "cost",
    "ease_of_integration">>

\* what the GET of checkAPIHealth can end in: a response after responseTime
\* milliseconds, or an error (a timeout or network error carries no response,
\* a non-2xx answer carries its status)
ProbeOutcomes ==
  {[ok |-> TRUE, responseTime |-> 100, status |-> 200],
   [ok |-> TRUE, responseTime |-> 700, status |-> 204],
   [ok |-> FALSE, responseTime |-> 0, status |-> 0],
   [ok |-> FALSE, responseTime |-> 0, status |-> 503]}

\* the catch branch returning the record of a healthy API
checkAPIHealth_FailureHealthy(outcome) ==
  [status |-> "healthy", responseTime |-> Some(outcome.responseTime),
   statusCode |-> outcome.status, available |-> TRUE]

checkAPIHealth(outcome) ==
  IF outcome.ok
  THEN [status |-> "healthy", responseTime |-> Some(outcome.responseTime),
        statusCode |-> outcome.status, available |-> TRUE]
  ELSE [status |-> "unhealthy", responseTime |-> Undefined,
        statusCode |-> outcome.status, available |-> FALSE]

\* api.endpoint is held as the one of 'graphql', 'grpc' it includes, or "rest"
detectAPIType(api) ==
  IF api.endpoint = "graphql" THEN "GraphQL"
  ELSE IF api.endpoint = "grpc" THEN "gRPC"
  ELSE "REST"

detectAPIFeatures(api) ==
  IF api.endpoint = "graphql"
  THEN <<"graphql", "flexible_queries", "single_endpoint">>
  ELSE <<"rest", "multiple_endpoints", "cacheable">>

\* the record one callback of enhanceAPIData returns
enhanceAPI(api, outcome) ==
  [name |-> api.name, endpoint |-> api.endpoint, rateLimits |-> api.rateLimits,
   pricing |-> api.pricing, health |-> checkAPIHealth(outcome),
   features |-> detectAPIFeatures(api), type |-> detectAPIType(api)]

\* constraints.weights?.[criterion] || 0.16
API_weightFor(cons, criterion) ==
  LET given == IF cons.weights # Undefined /\ criterion \in DOMAIN cons.weights[1]
               THEN cons.weights[1][criterion] ELSE 0
  IN  IF given # 0 THEN given ELSE 16

\* the performance score on a scale of hundreds
apiRawScore_Percent(api, criterion) ==
  IF criterion = "performance" /\ api.health.available THEN 90 ELSE 5

\* let score = 5; switch (criterion) { ... }
apiRawScore(api, criterion) ==
  CASE criterion = "performance" ->
         IF api.health.available
         THEN IF api.health.responseTime[1] < 200 THEN 9
              ELSE IF api.health.responseTime[1] < 500 THEN 7
              ELSE IF api.health.responseTime[1] < 1000 THEN 5
              ELSE 3
         ELSE 1
    [] criterion = "reliability" ->
         IF api.health.available
         THEN IF api.health.statusCode = 200 THEN 8 ELSE 6
         ELSE 2
    [] criterion = "documentation" ->
         IF api.type = "GraphQL" THEN 8
         ELSE IF api.type = "REST" THEN 7 ELSE 6
    [] criterion = "rate_limits" ->
         IF api.rateLimits # Undefined
         THEN IF api.rateLimits[1].requests > 1000 THEN 8 ELSE 6
         ELSE 5
    [] criterion = "cost" ->
         IF api.pricing # Undefined
         THEN IF api.pricing[1].free THEN 9
              ELSE IF api.pricing[1].cost < 50 THEN 7 ELSE 5
         ELSE 6
    [] criterion = "ease_of_integration" ->
         IF api.type = "REST" THEN 8
         ELSE IF api.type = "GraphQL" THEN 6 ELSE 5
    [] OTHER -> 5

evaluateAPICriterion(api, criterion, cons) ==
  [criterion |-> criterion,
   raw |-> apiRawScore(api, criterion),
   weighted |-> apiRawScore(api, criterion) * API_weightFor(cons, criterion)]

\* the record one callback of evaluateAPIs returns
evaluateAPI(api, crit, cons) ==
  LET scores == [k \in 1..Len(crit) |-> evaluateAPICriterion(api, crit[k], cons)]
  IN  [name |-> api.name, endpoint |-> api.endpoint,
       rateLimits |-> api.rateLimits, pricing |-> api.pricing,
       health |-> api.health, features |-> api.features, type |-> api.type,
       scores |-> scores, totalScore |-> sumOfWeighted(scores, Len(scores))]

\* the API objects a caller passes: name, endpoint, rateLimits, pricing
APIInputs(name) ==
  [name : {name},
   endpoint : {"rest", "graphql"},
   rateLimits : {Undefined, Some([requests |-> 2000])},
   pricing : {Undefined, Some([free |-> TRUE, cost |-> 0]),
              Some([free |-> FALSE, cost |-> 80])}]

APIInputLists ==
  {<<a>> : a \in APIInputs("A")}
    \cup {<<a, b>> : a \in APIInputs("A"), b \in APIInputs("B")}

\* options.constraints
APIConstraints ==
  [maxCost : {Undefined, Some(50)},
   weights : {Undefined, Some([cost |-> 50])}]

\* options.criteria || this.defaultCriteria
APICriteriaLists == {API_defaultCriteria, <<"cost", "support">>}

InitAPI ==
  /\ call = "compareAPIs"
  /\ options \in APIInputLists
  /\ criteria \in APICriteriaLists
  /\ constraints \in APIConstraints
  /\ task = << >>
  /\ values = << >>
  /\ result = [status |-> "called"]
  /\ scorer = Undefined
  /\ request = Undefined
  /\ response = Undefined

\* compare calls enhanceAPIData, which starts one callback per API
CompareAPIsStart ==
  /\ call = "compareAPIs"
  /\ result.status = "called"
  /\ task' = [i \in 1..Len(options) |-> Undefined]
  /\ result' = [status |-> "probing"]
  /\ UNCHANGED <<scorer, request, response, call, options, criteria,
                 constraints, values>>

\* the GET of API i ends; its callback builds the enhanced record
Probe(i) ==
  /\ call = "compareAPIs"
  /\ result.status = "probing"
  /\ i \in 1..Len(options)
  /\ task[i] = Undefined
  /\ \E outcome \in ProbeOutcomes :
       task' = promiseAllStore(task, i, enhanceAPI(options[i], outcome))
  /\ UNCHANGED <<scorer, request, response, call, options, criteria,
                 constraints, values, result>>

\* Promise.all of enhanceAPIData resolves; evaluateAPIs starts one callback
\* per enhanced API
EnhanceJoin ==
  /\ call = "compareAPIs"
  /\ result.status = "probing"
  /\ \A i \in 1..Len(options) : task[i] # Undefined
  /\ values' = [i \in 1..Len(options) |-> Undefined]
  /\ result' = [status |-> "pending"]
  /\ UNCHANGED <<scorer, request, response, call, options, criteria,
                 constraints, task>>

\* the callback of enhanced API i returns its record
EvaluateAPI(i) ==
  /\ call = "compareAPIs"
  /\ result.status = "pending"
  /\ i \in 1..Len(options)
  /\ values[i] = Undefined
  /\ values' = promiseAllStore(values, i,
                               evaluateAPI(task[i][1], criteria, constraints))
  /\ UNCHANGED <<scorer, request, response, call, options, criteria,
                 constraints, task, result>>

\* Promise.all of evaluateAPIs resolves and compare builds its result
CompareAPIsJoin ==
  /\ call = "compareAPIs"
  /\ result.status = "pending"
  /\ \A i \in 1..Len(options) : values[i] # Undefined
  /\ LET comparison == [i \in 1..Len(options) |-> values[i][1]]
     IN  result' = [status |-> "fulfilled",
                    apis |-> comparison,
                    recommendation |-> selectBestAPI(comparison, constraints)]
  /\ UNCHANGED <<scorer, request, response, call, options, criteria,
                 constraints, task, values>>

NextAPI ==
  \/ CompareAPIsStart
  \/ \E i \in 1..Len(options) : Probe(i)
  \/ EnhanceJoin
  \/ \E i \in 1..Len(options) : EvaluateAPI(i)
  \/ CompareAPIsJoin

SpecAPI == InitAPI /\ [][NextAPI]_vars

----------------------------------------------------------------------------
(* CloudServiceComparator.evaluateServiceCriterion, and the four criterion *)
(* scorers applied to one subject and one criterion name.  The cloud       *)
(* weights are in units of 1/700, so that the default 1/7 is whole;        *)
(* estimatedCost.monthly is in tenths of a dollar and marketShare in       *)
(* hundredths.                                                             *)

Cloud_defaultCriteria ==
  <<"cost_efficiency", "performance", "scalability", "reliability",
    "ease_of_use", "feature_completeness", "vendor_lock_in">>

\* this.serviceProfiles[service.provider] || {}
serviceProfiles(provider) ==
  CASE provider = "AWS" ->
         [strengths |-> Some({"feature_completeness", "scalability", "reliability"}),
          weaknesses |-> Some({"cost_efficiency", "ease_of_use"}),
          marketShare |-> Some(32)]
    [] provider = "Azure" ->
         [strengths |-> Some({"enterprise_integration", "hybrid_cloud", "cost_efficiency"}),
          weaknesses |-> Some({"learning_curve"}),
          marketShare |-> Some(20)]
    [] provider = "GCP" ->
         [strengths |-> Some({"performance", "ai_ml", "cost_efficiency"}),
          weaknesses |-> Some({"feature_completeness", "enterprise_features"}),
          marketShare |-> Some(9)]
    [] OTHER ->
         [strengths |-> Undefined, weaknesses |-> Undefined,
          marketShare |-> Undefined]

\* commonFeatures[service.provider] || []
mapFeatures(provider) ==
  CASE provider = "AWS" -> <<"ec2", "lambda", "s3", "rds", "vpc", "iam", "cloudwatch">>
    [] provider = "Azure" -> <<"vm", "functions", "blob", "sql", "vnet", "ad", "monitor">>
    [] provider = "GCP" ->
         <<"compute", "functions", "storage", "sql", "vpc", "iam", "monitoring">>
    [] OTHER -> << >>

\* profile.strengths?.includes(x) / profile.weaknesses?.includes(x)
listIncludes(list, x) == list # Undefined /\ x \in list[1]

\* constraints.weights?.[criterion] || (1 / this.defaultCriteria.length)
Cloud_weightFor(cons, criterion) ==
  LET given == IF cons.weights # Undefined /\ criterion \in DOMAIN cons.weights[1]
               THEN cons.weights[1][criterion] ELSE 0
  IN  IF given # 0 THEN Len(Cloud_defaultCriteria) * given ELSE 100

\* let score = 5; switch (criterion) { ... }
serviceRawScore(service, criterion) ==
  CASE criterion = "cost_efficiency" ->
         IF service.estimatedCost.monthly < 1000 THEN 9
         ELSE IF service.estimatedCost.monthly < 3000 THEN 7
         ELSE IF service.estimatedCost.monthly < 5000 THEN 5
         ELSE 3
    [] criterion = "performance" ->
         IF service.provider = "GCP" THEN 8
         ELSE IF service.provider = "AWS" THEN 7 ELSE 6
    [] criterion = "scalability" ->
         IF listIncludes(service.profile.strengths, "scalability") THEN 9 ELSE 7
    [] criterion = "reliability" ->
         IF service.profile.marketShare # Undefined
              /\ service.profile.marketShare[1] > 20 THEN 8
         ELSE IF service.profile.marketShare # Undefined
                   /\ service.profile.marketShare[1] > 10 THEN 7
         ELSE 6
    [] criterion = "ease_of_use" ->
         IF listIncludes(service.profile.weaknesses, "ease_of_use") THEN 5
         ELSE IF service.provider = "Azure" THEN 7 ELSE 6
    [] criterion = "feature_completeness" ->
         IF listIncludes(service.profile.strengths, "feature_completeness") THEN 9
         ELSE IF Len(service.features) > 5 THEN 7 ELSE 5
    [] criterion = "vendor_lock_in" ->
         IF service.provider = "AWS" THEN 4
         ELSE IF service.provider = "Azure" THEN 5 ELSE 6
    [] OTHER -> 5

\* the explanation text is left out
evaluateServiceCriterion(service, criterion, cons) ==
  [raw |-> serviceRawScore(service, criterion),
   weighted |-> serviceRawScore(service, criterion) * Cloud_weightFor(cons, criterion)]

\* estimatedCost.monthly of an enhanced service: hourlyRate * usage
EstimatedMonthlyValues == {95, 2000, 4500, 6000}

\* enhanced services, as enhanceServiceData returns them (the fields the
\* scorer reads)
EnhancedServices ==
  {[provider |-> p, profile |-> serviceProfiles(p),
    estimatedCost |-> [monthly |-> m], features |-> mapFeatures(p)] :
     p \in {"AWS", "Azure", "GCP", "Other"}, m \in EstimatedMonthlyValues}

\* enhanced APIs, as enhanceAPIData returns them
EnhancedAPIs ==
  {enhanceAPI(a, outcome) : a \in APIInputs("A"), outcome \in ProbeOutcomes}

\* a criterion name no scorer has a case for
UnknownCriterion == "support"

\* the criterion argument of a scorer: a name of its list or the unknown name
CriterionArguments(list) ==
  {<<list[k]>> : k \in 1..Len(list)} \cup {<<UnknownCriterion>>}

\* the weights a caller gives
ScorerConstraints ==
  [weights : {Undefined, Some([performance |-> 50])}]

InitScorers ==
  /\ \/ /\ call = "evaluateCriterion"
        /\ options \in {<<o>> : o \in PlainOptionObjects}
        /\ criteria \in {<<c>> : c \in {"performance", "cost", UnknownCriterion}}
     \/ /\ call = "evaluateAPICriterion"
        /\ options \in {<<a>> : a \in EnhancedAPIs}
        /\ criteria \in CriterionArguments(API_defaultCriteria)
     \/ /\ call = "evaluateServiceCriterion"
        /\ options \in {<<s>> : s \in EnhancedServices}
        /\ criteria \in CriterionArguments(Cloud_defaultCriteria)
     \/ /\ call = "evaluateStackCriterion"
        /\ options \in {<<stackNamed(n)>> : n \in {techStacks[k].name : k \in 1..Len(techStacks)}}
        /\ criteria \in CriterionArguments(TechStack_criteria)
  /\ constraints \in ScorerConstraints
  /\ task = << >>
  /\ values = << >>
  /\ result = [status |-> "called"]
  /\ scorer = Undefined
  /\ request = Undefined
  /\ response = Undefined

\* the scorer returns its CriterionScore
Scored(score) ==
  /\ result.status = "called"
  /\ result' = [status |-> "scored", score |-> score]
  /\ UNCHANGED <<scorer, request, response, call, options, criteria,
                 constraints, task, values>>

ScoreOption ==
  /\ call = "evaluateCriterion"
  /\ \E baseScore \in baseScores(options[1], criteria[1]) :
       Scored(evaluateCriterion(options[1], criteria[1], constraints, baseScore))

ScoreAPI ==
  /\ call = "evaluateAPICriterion"
  /\ Scored(evaluateAPICriterion(options[1], criteria[1], constraints))

ScoreService ==
  /\ call = "evaluateServiceCriterion"
  /\ Scored(evaluateServiceCriterion(options[1], criteria[1], constraints))

ScoreStack ==
  /\ call = "evaluateStackCriterion"
  /\ Scored(evaluateStackCriterion(options[1], criteria[1], constraints))

NextScorers == ScoreOption \/ ScoreAPI \/ ScoreService \/ ScoreStack

SpecScorers == InitScorers /\ [][NextScorers]_vars

----------------------------------------------------------------------------
(* Properties of RefereeEngine.compare *)

Done == call = "compareOptions" /\ result.status = "fulfilled"

Returned(i) == i \in 1..Len(values) /\ values[i] # Undefined

IndexSet(s) == 1..Len(s)

Range(s) == {s[k] : k \in 1..Len(s)}

Min2(a, b) == IF a < b THEN a ELSE b

\* the sum of the weighted scores recorded in a scores object
RECURSIVE SumWeighted(_)
SumWeighted(scores) ==
  IF scores = << >> THEN 0 ELSE Head(scores).weighted + SumWeighted(Tail(scores))

ValidIndexes == {k \in IndexSet(result.comparison) : result.comparison[k].meetsConstraints}

\* the position in comparison of the recommended option
ChoiceIndex ==
  CHOOSE k \in IndexSet(result.comparison) :
    result.comparison[k].name = result.recommendation.choice[1].name

\* C1: after evaluateOptions every evaluated option's totalScore equals the
\* sum of the weighted scores of the criteria present in its scores, for
\* every criteria list, one that names a criterion twice included.
C1_TotalScoreIsSumOfScores ==
  \A i \in IndexSet(values) :
    Returned(i) => values[i][1].totalScore = SumWeighted(values[i][1].scores)

\* C2: recommendation.choice is null or an evaluated option with
\* meetsConstraints = true; an option that fails the constraints is never
\* the choice.
C2_ChoiceMeetsConstraints ==
  Done =>
    \/ result.recommendation.choice = Undefined
    \/ /\ result.recommendation.choice[1] \in Range(result.comparison)
       /\ result.recommendation.choice[1].meetsConstraints

\* a comparison whose best-scoring option fails the constraints and whose
\* choice is another, valid option
C2_Witness ==
  /\ Done
  /\ result.recommendation.choice # Undefined
  /\ \E k \in IndexSet(result.comparison) :
       /\ ~result.comparison[k].meetsConstraints
       /\ result.comparison[k].totalScore
            > result.recommendation.choice[1].totalScore

\* C3: under a maxCost constraint checkConstraints returns true only if the
\* option has no cost field or option.cost <= maxCost, for every numeric
\* maxCost, 0 included.
C3_MaxCostBoundsCost ==
  \A i \in IndexSet(values) :
    (/\ Returned(i)
     /\ constraints.maxCost # Undefined
     /\ values[i][1].meetsConstraints)
    => \/ options[i].cost = Undefined
       \/ options[i].cost[1] <= constraints.maxCost[1]

\* C4: for a fixed option list the options that meet the constraints under
\* maxCost1 are among those that meet them under any maxCost2 >= maxCost1.
C4_MaxCostMonotone ==
  (Done /\ constraints.maxCost # Undefined) =>
    \A maxCost2 \in 0..MaxCost :
      constraints.maxCost[1] <= maxCost2 =>
        \A k \in ValidIndexes :
          checkConstraints(options[k],
                           [constraints EXCEPT !.maxCost = Some(maxCost2)])

\* C5: when no option of a non-empty list meets the constraints, compare
\* does not throw; choice is null and alternatives are the first min(2, n)
\* evaluated options of the whole list, in input order.
C5_NoValidOptions ==
  (/\ call = "compareOptions"
   /\ result.status \in {"fulfilled", "rejected"}
   /\ Len(options) > 0
   /\ \A i \in IndexSet(options) : ~values[i][1].meetsConstraints)
  => /\ result.status = "fulfilled"
     /\ result.recommendation.choice = Undefined
     /\ Len(result.recommendation.alternatives) = Min2(2, Len(options))
     /\ \A k \in IndexSet(result.recommendation.alternatives) :
          /\ result.recommendation.alternatives[k] = result.comparison[k]
          /\ result.recommendation.alternatives[k].name = options[k].name

\* three options, none within maxCost: two alternatives, no choice
C5_Witness ==
  /\ Done
  /\ Len(options) = 3
  /\ ValidIndexes = {}
  /\ result.recommendation.choice = Undefined
  /\ Len(result.recommendation.alternatives) = 2

\* C6: when some option is valid, choice is a valid option whose totalScore
\* is at least that of every valid option, and the first in input order
\* among the valid options with that totalScore.
C6_ChoiceIsFirstBest ==
  (Done /\ ValidIndexes # {}) =>
    /\ result.recommendation.choice # Undefined
    /\ result.recommendation.choice[1] = result.comparison[ChoiceIndex]
    /\ ChoiceIndex \in ValidIndexes
    /\ \A k \in ValidIndexes :
         /\ result.comparison[k].totalScore
              <= result.comparison[ChoiceIndex].totalScore
         /\ k < ChoiceIndex =>
              result.comparison[k].totalScore
                < result.comparison[ChoiceIndex].totalScore

\* a later valid option ties with the choice on a positive totalScore, and
\* another valid option scores less
C6_Witness ==
  /\ Done
  /\ result.recommendation.choice # Undefined
  /\ result.recommendation.choice[1].totalScore > 0
  /\ Cardinality({k \in ValidIndexes :
        /\ k > ChoiceIndex
        /\ result.comparison[k].totalScore
             = result.recommendation.choice[1].totalScore}) >= 1
  /\ \E k \in ValidIndexes :
       result.comparison[k].totalScore < result.recommendation.choice[1].totalScore

\* C7: comparison holds exactly one record per input option, in input order,
\* whether or not the option meets the constraints and whatever the order in
\* which the scoring callbacks return.
C7_ComparisonInInputOrder ==
  /\ \A i \in IndexSet(values) :
       Returned(i) =>
         /\ values[i][1].name = options[i].name
         /\ values[i][1].cost = options[i].cost
         /\ values[i][1].features = options[i].features
  /\ Done =>
       /\ Len(result.comparison) = Len(options)
       /\ \A k \in IndexSet(options) :
            /\ result.comparison[k] = values[k][1]
            /\ result.comparison[k].name = options[k].name

\* the callback of the last option has returned before those of the first
\* two, and the option fails the constraints
C7_Witness ==
  /\ Len(options) = 3
  /\ result.status = "pending"
  /\ ~Returned(1) /\ ~Returned(2) /\ Returned(3)
  /\ task[1].pos = 0
  /\ ~values[3][1].meetsConstraints

\* the number of options the recommendation of the state was chosen among
ValidCount ==
  IF call = "compareOptions" THEN Cardinality(ValidIndexes)
  ELSE IF call = "selectBestService"
  THEN Cardinality({k \in IndexSet(options) :
         /\ (constraints.maxMonthlyCost \in {Undefined, Some(0)}
               \/ options[k].estimatedCost.monthly <= constraints.maxMonthlyCost[1])
         /\ (constraints.requiredCompliance = Undefined
               \/ Range(constraints.requiredCompliance[1]) \subseteq options[k].compliance)})
  ELSE IF call = "selectBestAPI"
  THEN Cardinality({k \in IndexSet(options) : options[k].health.available})
  ELSE Len(options)

\* C8: whenever a recommendation has a non-null choice its confidence lies
\* in [0.5, 1.0] (1500..3000), and it is exactly 1.0 when fewer than 2 valid
\* options exist, for RefereeEngine, CloudServiceComparator,
\* TechStackComparator and APIComparator alike.
C8_ConfidenceBounds ==
  (result.status = "fulfilled" /\ result.recommendation.choice # Undefined) =>
    /\ result.recommendation.confidence >= 1500
    /\ result.recommendation.confidence <= 3000
    /\ ValidCount < 2 => result.recommendation.confidence = 3000

\* a cloud recommendation among two valid services of three, its confidence
\* strictly between the base and the cap
C8_Witness ==
  /\ call = "selectBestService"
  /\ result.status = "fulfilled"
  /\ Len(options) = 3
  /\ ValidCount = 2
  /\ result.recommendation.choice # Undefined
  /\ result.recommendation.confidence > 1800
  /\ result.recommendation.confidence < 3000

\* the gap between the choice and the best of the other valid options
ChoiceGap ==
  LET others == {result.comparison[k].totalScore : k \in ValidIndexes \ {ChoiceIndex}}
      runnerUp == CHOOSE t \in others : \A u \in others : u <= t
  IN  result.comparison[ChoiceIndex].totalScore - runnerUp

\* C9: with at least 2 valid options the confidence is min(0.5 + gap/10, 1.0),
\* gap being the choice's totalScore minus the highest totalScore among the
\* other valid options (3000 stands for 1.0, 1500 for 0.5, 3 for 0.01 / 10).
C9_ConfidenceFormula ==
  (Done /\ Cardinality(ValidIndexes) >= 2) =>
    result.recommendation.confidence = Min2(1500 + 3 * ChoiceGap, 3000)

\* a gap of more than 5 points between the two best valid options
C9_Witness ==
  /\ Done
  /\ Cardinality(ValidIndexes) >= 2
  /\ ChoiceGap > 500
  /\ result.recommendation.confidence = 3000

\* the raw score an evaluated option holds for a criterion
RawAt(k, c) ==
  LET e == CHOOSE e \in Range(result.comparison[k].scores) : e.criterion = c
  IN  e.raw

ScoredCriteria(k) == {e.criterion : e \in Range(result.comparison[k].scores)}

\* the criteria on which option a leads option b by more than 1
Leads(a, b) == {c \in ScoredCriteria(a) : RawAt(a, c) - RawAt(b, c) > 1}

TradeoffPairs ==
  {p \in IndexSet(result.comparison) \X IndexSet(result.comparison) :
     p[1] < p[2] /\ Leads(p[1], p[2]) # {} /\ Leads(p[2], p[1]) # {}}

\* C10: analyzeTradeoffs emits exactly one record for each pair (A before B)
\* of evaluated options, valid or not, in which each leads the other by more
\* than 1 on some criterion, and none for any other pair; aStrengths and
\* bStrengths are exactly the criteria on which A and B lead by more than 1.
C10_TradeoffsAreTheCrossedPairs ==
  Done =>
    /\ Len(result.tradeoffs) = Cardinality(TradeoffPairs)
    /\ \A p \in TradeoffPairs :
         \E k \in IndexSet(result.tradeoffs) :
           /\ result.tradeoffs[k].optionA = result.comparison[p[1]].name
           /\ result.tradeoffs[k].optionB = result.comparison[p[2]].name
           /\ Range(result.tradeoffs[k].aStrengths) = Leads(p[1], p[2])
           /\ Range(result.tradeoffs[k].bStrengths) = Leads(p[2], p[1])
           /\ Len(result.tradeoffs[k].aStrengths) = Cardinality(Leads(p[1], p[2]))
           /\ Len(result.tradeoffs[k].bStrengths) = Cardinality(Leads(p[2], p[1]))
    /\ \A k \in IndexSet(result.tradeoffs) :
         \E p \in TradeoffPairs :
           /\ result.tradeoffs[k].optionA = result.comparison[p[1]].name
           /\ result.tradeoffs[k].optionB = result.comparison[p[2]].name

\* three options: two pairs are trade-offs, the third pair differs by
\* exactly 1 on a criterion and is not one
C10_Witness ==
  /\ Done
  /\ Len(result.comparison) = 3
  /\ Len(result.tradeoffs) = 2
  /\ \E a, b \in IndexSet(result.comparison) :
       /\ a < b
       /\ <<a, b>> \notin TradeoffPairs
       /\ \E c \in ScoredCriteria(a) : RawAt(b, c) - RawAt(a, c) = 1

\* a trade-off between two options of which the first fails the constraints
C10_WitnessInvalid ==
  /\ Done
  /\ \E p \in TradeoffPairs : ~result.comparison[p[1]].meetsConstraints

----------------------------------------------------------------------------
(* C11: for any two evaluated options A and B of a comparison,             *)
(* compareTwo(B, A) reports a trade-off exactly when compareTwo(A, B) does *)
(* and its aStrengths / bStrengths are the bStrengths / aStrengths of      *)
(* compareTwo(A, B); no trade-off is reported, in either order, when one   *)
(* option leads by more than 1 on every criterion.                         *)
C11_TradeoffSymmetry ==
  Done =>
    \A a \in IndexSet(result.comparison) :
      \A b \in IndexSet(result.comparison) \ {a} :
        LET ab == compareTwo(result.comparison[a], result.comparison[b])
            ba == compareTwo(result.comparison[b], result.comparison[a])
        IN  /\ ba.hasTradeoff = ab.hasTradeoff
            /\ ba.aStrengths = ab.bStrengths
            /\ ba.bStrengths = ab.aStrengths
            /\ Leads(a, b) = ScoredCriteria(a) => ~ab.hasTradeoff /\ ~ba.hasTradeoff

\* a finished comparison that reports the trade-off of its first two options,
\* whose strengths are seen swapped when the two are compared in the other
\* order
C11_Witness ==
  /\ Done
  /\ Len(result.comparison) = 2
  /\ Len(result.tradeoffs) = 1
  /\ result.tradeoffs[1].aStrengths = <<"security">>
  /\ compareTwo(result.comparison[2], result.comparison[1]).bStrengths
       = <<"security">>

----------------------------------------------------------------------------
C13_EmptyListSummary ==
  (/\ call = "compareOptions"
   /\ Len(options) = 0
   /\ result.status \in {"fulfilled", "rejected"})
    => /\ result.status = "fulfilled"
       /\ result.summary.totalOptions = 0
       /\ result.summary.validOptions = 0
       /\ result.summary.topChoices = << >>

----------------------------------------------------------------------------
\* the scores and total of an option after its first k criteria, scored one
\* after the other by the fixed scorer
RECURSIVE ScoredUpTo(_, _)
ScoredUpTo(option, k) ==
  IF k = 0 THEN [scores |-> << >>, totalScore |-> 0]
  ELSE LET prev == ScoredUpTo(option, k - 1)
           criterion == criteria[k]
           score == evaluateCriterion(option, criterion, constraints,
                                      scorer[1][option.name][criterion])
       IN  [scores |-> PutScore(prev.scores, criterion, score),
            totalScore |-> prev.totalScore + score.weighted]

\* the one result the arguments and the fixed scorer determine
DeterminedResult ==
  compareResult(
    [i \in 1..Len(options) |->
       LET s == ScoredUpTo(options[i], Len(criteria))
       IN  EvaluatedOption(options[i], s.scores, s.totalScore, constraints)],
    constraints)

----------------------------------------------------------------------------
\* the criteria the caller gives a weight for in constraints.weights
CallerWeighted ==
  IF constraints.weights = Undefined THEN {} ELSE DOMAIN constraints.weights[1]

(* C15: for every criterion the caller gives a weight w for, 0 included,   *)
(* the recorded weighted score is raw * w.                                 *)
C15_CallerWeightApplied ==
  call = "compareOptions" =>
    \A i \in 1..Len(values) :
      Returned(i) =>
        \A e \in Range(values[i][1].scores) :
          e.criterion \in CallerWeighted =>
            e.weighted = e.raw * constraints.weights[1][e.criterion]

(* C16 as stated: for a criterion with no caller-specified weight the      *)
(* weight is 1 / |criteria|, the active criteria list's equal share.       *)
C16_DefaultWeightIsEqualShare ==
  call = "compareOptions" =>
    \A i \in 1..Len(values) :
      Returned(i) =>
        \A e \in Range(values[i][1].scores) :
          e.criterion \notin CallerWeighted =>
            e.weighted * Len(criteria) = e.raw * 100

(* C16: for a criterion with no caller-specified weight the engine uses    *)
(* the weight defaultWeights holds for the criterion (0.3 for performance, *)
(* 0.25 for cost), and 0.1 for a criterion defaultWeights does not hold,   *)
(* whatever the length of the active criteria list.                        *)
C16_DefaultWeightFromTable ==
  call = "compareOptions" =>
    \A i \in 1..Len(values) :
      Returned(i) =>
        \A e \in Range(values[i][1].scores) :
          e.criterion \notin CallerWeighted =>
            e.weighted = e.raw * (CASE e.criterion = "performance" -> 30
                                    [] e.criterion = "cost" -> 25
                                    [] OTHER -> 10)

\* an option scored 9 on performance and on security with no caller weights:
\* 2.7 and 0.9 weighted, under a criteria list of length 2
C16_Witness ==
  /\ call = "compareOptions"
  /\ constraints.weights = Undefined
  /\ criteria = <<"performance", "security">>
  /\ Returned(1)
  /\ values[1][1].scores[1].weighted = 270
  /\ values[1][1].scores[2].weighted = 90

----------------------------------------------------------------------------
\* the list a request carries for comparison: options, apis or services
PostedList == request[1].body.list

\* the handler has not called the referee: no comparison or scoring has run
NeverInvoked ==
  call = "http" /\ result.status = "idle" /\ task = << >> /\ values = << >>

(* C17: a request to /api/compare/general, /api/compare/apis or            *)
(* /api/compare/cloud whose list is not an array or has fewer than 2       *)
(* elements is answered with status 400 and an error text, and the         *)
(* comparison code is never invoked for it.                                *)
C17_ShortListRejected ==
  (request # Undefined /\ (PostedList.kind # "array" \/ Len(PostedList.items) < 2))
    => /\ NeverInvoked
       /\ response # Undefined =>
            response[1].status = 400 /\ "error" \in DOMAIN response[1]

\* a request to /api/compare/cloud with one service, answered with 400
C17_Witness ==
  /\ request # Undefined
  /\ request[1].route = "cloud"
  /\ PostedList.kind = "array"
  /\ Len(PostedList.items) = 1
  /\ response # Undefined
  /\ response[1].status = 400

(* C18: a request to /api/compare/general whose criteria list is empty is  *)
(* answered with a rejection and the engine is never invoked for it.       *)
C18_EmptyCriteriaRejected ==
  (/\ request # Undefined
   /\ request[1].route = "general"
   /\ request[1].body.criteria.kind = "array"
   /\ Len(request[1].body.criteria.items) = 0)
    => /\ NeverInvoked
       /\ response # Undefined => response[1].status = 400

----------------------------------------------------------------------------
\* every required feature is in the feature set of option i
HasRequiredFeatures(i) ==
  constraints.requiredFeatures = Undefined
    \/ \A k \in 1..Len(constraints.requiredFeatures[1]) :
         /\ options[i].features # Undefined
         /\ constraints.requiredFeatures[1][k] \in options[i].features[1]

\* option i has no cost or a cost within maxCost
WithinMaxCost(i) ==
  \/ constraints.maxCost = Undefined
  \/ options[i].cost = Undefined
  \/ options[i].cost[1] <= constraints.maxCost[1]

(* C19: checkConstraints is the conjunction of the two predicates: an      *)
(* option meets the constraints exactly when every required feature is in  *)
(* its feature set (an option with no feature set passing exactly when no  *)
(* feature is required) and it is within maxCost.                          *)
C19_FeaturesAndMaxCost ==
  call = "compareOptions" =>
    \A i \in IndexSet(values) :
      Returned(i) =>
        values[i][1].meetsConstraints
          = (HasRequiredFeatures(i) /\ WithinMaxCost(i))

----------------------------------------------------------------------------
\* the index in the comparison of the option named name
IndexOfName(name) ==
  CHOOSE k \in IndexSet(result.comparison) : result.comparison[k].name = name

\* the first criterion, in the order of the scores object, on which option k
\* has its highest raw score
HighestRawCriterion(k) ==
  LET s == result.comparison[k].scores
      best == CHOOSE p \in 1..Len(s) :
                /\ \A q \in 1..Len(s) : s[q].raw <= s[p].raw
                /\ \A q \in 1..(p - 1) : s[q].raw < s[p].raw
  IN  s[best].criterion

(* C20: summary.topChoices is the valid options in descending order of     *)
(* totalScore, cut to at most 3, and the keyStrength of each entry is the  *)
(* criterion with that option's highest raw score, the first such on a     *)
(* tie, for every combination of raw scores in [0, 10].                    *)
C20_TopChoicesKeyStrength ==
  (Done /\ Len(criteria) > 0) =>
    LET top == result.summary.topChoices
        at(k) == IndexOfName(top[k].name)
    IN  /\ Len(top) = Min2(Cardinality(ValidIndexes), 3)
        /\ \A k \in IndexSet(top) : at(k) \in ValidIndexes
        /\ \A k \in IndexSet(top) : \A l \in IndexSet(top) :
             k < l => /\ at(k) # at(l)
                      /\ result.comparison[at(k)].totalScore
                           >= result.comparison[at(l)].totalScore
        /\ \A k \in IndexSet(top) : \A v \in ValidIndexes :
             v \notin {at(l) : l \in IndexSet(top)} =>
               result.comparison[at(k)].totalScore
                 >= result.comparison[v].totalScore
        /\ \A k \in IndexSet(top) :
             top[k].keyStrength = HighestRawCriterion(at(k))

----------------------------------------------------------------------------
\* the sum of the raw scores of criterion c over all evaluated options; the
\* averages are these sums over the one divisor Len(result.comparison)
RawTotal(c) == rawSum(result.comparison, c, Len(result.comparison))

(* C21: summary.keyInsight names the criterion whose average raw score     *)
(* over all evaluated options, valid or not, is the highest among all      *)
(* criteria, for every combination of raw scores in [0, 10].               *)
C21_KeyInsightIsHighestAverage ==
  (Done /\ Len(criteria) > 0) =>
    LET named == result.summary.keyInsight.criterion
    IN  /\ named \in ScoredCriteria(1)
        /\ \A c \in ScoredCriteria(1) : RawTotal(named) >= RawTotal(c)

----------------------------------------------------------------------------
(* C24: compareOptions called with a non-empty option list, a criteria     *)
(* list and no constraints argument does not throw, marks every option as  *)
(* meeting the constraints and recommends one of the input options, with a *)
(* numeric totalScore.                                                     *)
C24_NoConstraintsArgument ==
  (/\ call = "compareOptions"
   /\ constraints = NoConstraints
   /\ Len(options) > 0
   /\ result.status \in {"fulfilled", "rejected"})
    => /\ result.status = "fulfilled"
       /\ \A k \in IndexSet(result.comparison) :
            result.comparison[k].meetsConstraints
       /\ result.recommendation.choice # Undefined
       /\ \E k \in IndexSet(options) :
            /\ result.recommendation.choice[1].name = options[k].name
            /\ result.recommendation.choice[1].cost = options[k].cost
       /\ result.recommendation.choice[1].totalScore \in Nat

\* three options compared without constraints, the second recommended
C24_Witness ==
  /\ Done
  /\ constraints = NoConstraints
  /\ Len(options) = 3
  /\ Len(criteria) = 2
  /\ result.recommendation.choice # Undefined
  /\ result.recommendation.choice[1].name = options[2].name

----------------------------------------------------------------------------
(* C25: an option's record and totalScore exist only once every one of its *)
(* criteria has been scored, and compare returns (with recommendation,     *)
(* tradeoffs and summary) only once every option's record exists, whatever *)
(* the order in which the scoring calls complete: no partial result.       *)
C25_JoinBarrier ==
  call = "compareOptions" =>
    /\ \A i \in IndexSet(values) :
         Returned(i) =>
           /\ task[i].pos = Len(criteria)
           /\ values[i][1].totalScore = task[i].totalScore
           /\ {e.criterion : e \in Range(values[i][1].scores)} = Range(criteria)
    /\ result.status = "fulfilled" =>
         /\ Len(values) = Len(options)
         /\ \A i \in IndexSet(options) : Returned(i)
         /\ result.comparison = [i \in IndexSet(options) |-> values[i][1]]
    /\ result.status \in {"called", "pending"} =>
         DOMAIN result = {"status"}

\* the second option's record is complete while the first option is between
\* its two criteria: compare has not returned
C25_Witness ==
  /\ call = "compareOptions"
  /\ result.status = "pending"
  /\ Len(options) = 2
  /\ Len(criteria) = 2
  /\ Returned(2)
  /\ ~Returned(1)
  /\ task[1].pos = 1

----------------------------------------------------------------------------
(* C26: compare leaves the options array, the option objects, the criteria *)
(* list and the constraints object as the caller passed them; the          *)
(* evaluated records are new objects holding the option's own fields, and  *)
(* the comparison list stays in the order of the options whatever order    *)
(* summary.topChoices is in.                                               *)
C26_InputsUnchanged ==
  [][/\ options' = options
     /\ criteria' = criteria
     /\ constraints' = constraints
     /\ result'.status = "fulfilled" =>
          /\ Len(result'.comparison) = Len(options)
          /\ \A k \in IndexSet(options) :
               /\ result'.comparison[k].name = options[k].name
               /\ result'.comparison[k].cost = options[k].cost
               /\ result'.comparison[k].features = options[k].features
               /\ DOMAIN options[k] = {"name", "cost", "features"}]_vars

\* a finished comparison whose topChoices start with the second option while
\* the comparison list starts with the first
C26_Witness ==
  /\ Done
  /\ Len(options) >= 2
  /\ result.comparison[1].name = options[1].name
  /\ Len(result.summary.topChoices) >= 2
  /\ result.summary.topChoices[1].name = options[2].name
  /\ result.summary.topChoices[2].name = options[1].name

----------------------------------------------------------------------------
(* C28: whenever recommendation.choice is not null, summary.topChoices is  *)
(* not empty and its first entry is the chosen option, by name and score,  *)
(* also when several valid options tie on totalScore; and                  *)
(* summary.validOptions is 0 exactly when the choice is null.              *)
C28_TopChoiceIsTheChoice ==
  Done =>
    LET choice == result.recommendation.choice
        top == result.summary.topChoices
    IN  /\ choice # Undefined =>
             /\ Len(top) > 0
             /\ top[1].name = choice[1].name
             /\ top[1].score = toFixed2(choice[1].totalScore)
        /\ (result.summary.validOptions = 0) = (choice = Undefined)

\* the first two options are valid and tie on the highest totalScore, above 0
C28_Witness ==
  /\ Done
  /\ Len(result.comparison) = 3
  /\ {1, 2} \subseteq ValidIndexes
  /\ result.comparison[1].totalScore = result.comparison[2].totalScore
  /\ result.comparison[1].totalScore > 0
  /\ \A k \in ValidIndexes :
       result.comparison[k].totalScore <= result.comparison[1].totalScore
  /\ result.recommendation.choice[1].name = options[1].name

----------------------------------------------------------------------------
(* C29: for every project type (web_app, api, enterprise or another), team *)
(* experience (beginner or not) and timeline (urgent or not) the filtered  *)
(* candidate list is not empty, so recommend does not fail on the          *)
(* implementation plan and recommendation.choice is never null.            *)
C29_CandidatesNeverEmpty ==
  call = "recommendTechStack" =>
    /\ result.status # "rejected"
    /\ result.status = "pending" => Len(options) > 0
    /\ result.status = "fulfilled" =>
         /\ Len(result.comparison) > 0
         /\ result.recommendation.choice # Undefined

\* an urgent enterprise project of a beginner team: Django_Stack is the one
\* candidate and the choice
C29_Witness ==
  /\ call = "recommendTechStack"
  /\ constraints.projectType = "enterprise"
  /\ constraints.teamExperience = "beginner"
  /\ constraints.timeline = "urgent"
  /\ result.status = "fulfilled"
  /\ Len(result.comparison) = 1
  /\ result.recommendation.choice[1].name = "Django_Stack"

(* C30: the implementation plan is built for the recommended stack: the    *)
(* technologies of its setup phase are those of recommendation.choice.     *)
C30_PlanIsForTheChoice ==
  (call = "recommendTechStack" /\ result.status = "fulfilled") =>
    /\ result.recommendation.choice # Undefined
    /\ result.implementationPlan.setup
         = result.recommendation.choice[1].technologies

----------------------------------------------------------------------------
(* Properties of the criterion scorers and of APIComparator.compare *)

\* C22: every raw score a scorer returns lies in [0,10], whichever of the four
\* scorers produced it and whether or not the scorer has a case for the
\* criterion name
C22_RawScoresInRange ==
  result.status = "scored" =>
    /\ result.score.raw >= 0
    /\ result.score.raw <= 10

\* evaluateAPICriterion has scored an API on a criterion name it has no case
\* for, and returned the default
C22_Witness ==
  /\ call = "evaluateAPICriterion"
  /\ result.status = "scored"
  /\ criteria[1] = UnknownCriterion
  /\ result.score.raw = 5

\* C23: when options.constraints.maxCost is given, the API compare recommends
\* has no pricing.cost above maxCost
C23_MaxCostFiltersAPIs ==
  (/\ call = "compareAPIs"
   /\ result.status = "fulfilled"
   /\ constraints.maxCost # Undefined
   /\ result.recommendation.choice # Undefined
   /\ result.recommendation.choice[1].pricing # Undefined)
    => result.recommendation.choice[1].pricing[1].cost <= constraints.maxCost[1]

\* C27: a failed probe gives a health record with available = false and never
\* rejects the comparison; the result lists every API, the choice is an
\* available API, it is null exactly when no API is available, and the
\* alternatives do not contain it
C27_ProbeFailureContained ==
  /\ \A outcome \in ProbeOutcomes :
       ~outcome.ok => ~checkAPIHealth(outcome).available
  /\ call = "compareAPIs" =>
       /\ result.status # "rejected"
       /\ \A i \in 1..Len(task) :
            (task[i] # Undefined /\ task[i][1].health.status = "unhealthy")
              => ~task[i][1].health.available
       /\ result.status = "fulfilled" =>
            LET rec == result.recommendation
            IN  /\ Len(result.apis) = Len(options)
                /\ \A k \in 1..Len(options) : result.apis[k].name = options[k].name
                /\ rec.choice # Undefined => rec.choice[1].health.available
                /\ rec.choice = Undefined
                     <=> \A k \in 1..Len(result.apis) :
                           ~result.apis[k].health.available
                /\ rec.choice # Undefined =>
                     \A k \in 1..Len(rec.alternatives) :
                       /\ rec.alternatives[k] # rec.choice[1]
                       /\ rec.alternatives[k].name # rec.choice[1].name

\* the probe of A failed and B answered: compare is fulfilled, B is the
\* choice although A's total is higher, and A is not offered either
C27_Witness ==
  /\ call = "compareAPIs"
  /\ result.status = "fulfilled"
  /\ Len(result.apis) = 2
  /\ ~result.apis[1].health.available
  /\ result.apis[1].health.statusCode = 0
  /\ result.apis[1].totalScore > result.apis[2].totalScore
  /\ result.recommendation.choice = Some(result.apis[2])
  /\ result.recommendation.alternatives = << >>

====
